---- MODULE Spec2Model ----
(***************************************************************************)
(* A model of validate() in validation.py: the schema validation of the   *)
(* eight tables, the battle interval check, the battle roster check and   *)
(* the per-marble replay of the lifecycle state machine.                  *)
(*                                                                         *)
(* validate() is one sequential function.  pc is its position, err the    *)
(* exception that ended it ("none" while it runs).  A row of a table is a  *)
(* function from column names to values, as csv.DictReader and the schema  *)
(* produce it; an event is a tuple as the code builds it, so the code's    *)
(* event[0..3] are event[1..4] here.  Times are whole numbers (tenths of a *)
(* second).                                                                *)
(***************************************************************************)
EXTENDS Integers, Sequences, FiniteSets, TLC

VARIABLES
    colors_list,    \* colors.csv after COLORS_SCHEMA (line 47)
    marbles_list,   \* marbles.csv after MARBLES_SCHEMA (line 69)
    begins,         \* begin.csv after BEGIN_SCHEMA (line 83)
    levels,         \* level.csv after LEVEL_SCHEMA (line 94)
    ends,           \* end.csv after END_SCHEMA (line 107)
    battle_list,    \* battles.csv after BATTLE_SCHEMA (line 118), sorted in place at line 158
    battle_colors,  \* battle-colors.csv after BATTLE_COLOR_SCHEMA (line 130)
    battle_marbles, \* battle-marbles.csv after BATTLE_MARBLE_SCHEMA (line 142)
    battles_df,     \* the copy of battle_list made at line 151, in file order
    rows,           \* what get_rows returned for the table being validated
    pc,             \* position in validate()
    err,            \* the exception raised, "none" while running
    i,              \* the loop variable of line 159
    bk,             \* index of the loop "for id in battles" (line 167)
    mk,             \* index of the loop "for marble in marbles" (line 177)
    event,          \* the loop variable of "for event in events" (line 221)
    state,          \* line 214
    level,          \* line 215
    events,         \* the list events of the marble (lines 178-208)
    ek,             \* how many events of the list the loop of line 221 has taken
    time,           \* a time as a number: the result of to_numeric_time, the argument of to_display_time
    time_text       \* a time as a text: the argument of to_numeric_time, the result of to_display_time

tables == <<colors_list, marbles_list, begins, levels, ends, battle_list,
            battle_colors, battle_marbles>>
history == <<mk, event, state, level>>
stream == <<events, ek>>
codec == <<time, time_text>>
vars == <<tables, battles_df, rows, pc, err, i, bk, history, stream, codec>>

(* The value of a table that a specification does not read, and of a       *)
(* variable of validate() that is not assigned yet.                        *)
NotModelled == "not modelled"
Unset == "unset"

(* The value of a table of validate() that is not assigned yet: no file    *)
(* holds it, and it compares with every list of rows.                      *)
Unbound == <<[unbound |-> TRUE]>>

----------------------------------------------------------------------------
(* Bounds of the model *)

MaxLevel == 2
MaxTime == 1

(* level = None (line 215).  Levels of rows are >= 0 (is_valid_level), so   *)
(* None never equals one of them.                                          *)
None == -1

Levels == 0..MaxLevel
Times == 0..MaxTime
MarbleNames == {"m1", "m2"}

----------------------------------------------------------------------------
(* Rows and events *)

MarbleRow(name, color, final) ==
    ("Marble Name" :> name) @@ ("Full Name" :> name) @@ ("Type" :> "marble")
    @@ ("Color" :> color) @@ ("Final Level" :> final) @@ ("Kills" :> 0)

(* The tuples appended to events, lines 179-207.  A Location passed the    *)
(* schema (lines 77, 101): a sentinel or the name of a marble.             *)
MarbleKeys == { marbles_list[j]["Marble Name"] : j \in 1..Len(marbles_list) }

BeginEvents ==
    { <<t, ty, l, loc>> : t \in Times, ty \in {"Born", "Summon", "Revive"},
                          l \in Levels, loc \in {"-"} \cup MarbleKeys }
LevelEvents == { <<t, "Level", l>> : t \in Times, l \in Levels }
EndEvents ==
    { <<t, ty, l, loc>> : t \in Times, ty \in {"Death", "Survive"},
                          l \in Levels, loc \in {"BATTLE", "-"} \cup MarbleKeys }
BattleEvents == { <<t, ty>> : t \in Times, ty \in {"Begin Battle", "End Battle"} }

Events == BeginEvents \cup LevelEvents \cup EndEvents \cup BattleEvents

(* The keys of {row[key]: row for row in rows}: the distinct values of the  *)
(* column in the order of their first row.                                 *)
RECURSIVE DictKeys(_, _)
DictKeys(list, key) ==
    IF list = <<>> THEN <<>>
    ELSE LET front == DictKeys(SubSeq(list, 1, Len(list) - 1), key)
             k == list[Len(list)][key]
         IN  IF \E j \in 1..Len(front) : front[j] = k THEN front
             ELSE Append(front, k)

(* df[df[key] == value]: the rows of the value, in row order. *)
RowsOf(df, key, value) == SelectSeq(df, LAMBDA r : r[key] = value)

(* marbles_df[marbles_df["Marble Name"] == marble]["Final Level"].iloc[0] *)
FinalLevel(marble) == RowsOf(marbles_list, "Marble Name", marble)[1]["Final Level"]

----------------------------------------------------------------------------
(* The lifecycle state machine, lines 221-264.  Each operator is one case   *)
(* of "match state" and gives the state, the level and the exception after  *)
(* the event; an assignment made before a failing assert is kept.          *)

Step(st, lvl, ex) == [state |-> st, level |-> lvl, err |-> ex]

CaseUnalive(lvl, ev) ==
    IF ev[2] \in {"Born", "Summon"} THEN Step("alive", ev[3], "none")
    ELSE Step("unalive", lvl, "ValueError")

(* A mutant of CaseAlive: a Level row is accepted outside a battle. *)
CaseAliveLevelAllowed(lvl, ev) ==
    CASE ev[2] = "Begin Battle" -> Step("battle", lvl, "none")
      [] ev[2] = "Survive" ->
            Step("done", lvl, IF ev[4] # "BATTLE" THEN "none" ELSE "AssertionError")
      [] ev[2] = "Level" -> Step("alive", ev[3], "none")
      [] OTHER -> Step("alive", lvl, "ValueError")

(* A mutant of CaseAlive: End Battle is ignored, as it is in "dead". *)
CaseAliveEndBattle(lvl, ev) ==
    CASE ev[2] = "Begin Battle" -> Step("battle", lvl, "none")
      [] ev[2] = "Survive" ->
            Step("done", lvl, IF ev[4] # "BATTLE" THEN "none" ELSE "AssertionError")
      [] ev[2] = "End Battle" -> Step("alive", lvl, "none")
      [] OTHER -> Step("alive", lvl, "ValueError")

CaseAlive(lvl, ev) ==
    CASE ev[2] = "Begin Battle" -> Step("battle", lvl, "none")
      [] ev[2] = "Survive" ->
            Step("done", lvl, IF ev[4] # "BATTLE" THEN "none" ELSE "AssertionError")
      [] OTHER -> Step("alive", lvl, "ValueError")

(* A mutant of CaseBattle: a level-up may skip levels. *)
CaseBattleLevelJump(lvl, ev) ==
    CASE ev[2] = "End Battle" -> Step("alive", lvl, "none")
      [] ev[2] = "Level" ->
            IF ev[3] > lvl THEN Step("battle", ev[3], "none")
            ELSE Step("battle", lvl, "AssertionError")
      [] ev[2] = "Death" ->
            Step("dead", lvl, IF ev[4] = "BATTLE" THEN "none" ELSE "AssertionError")
      [] OTHER -> Step("battle", lvl, "ValueError")

(* A mutant of CaseBattle: the location of a Death is not checked. *)
CaseBattleDeathAnywhere(lvl, ev) ==
    CASE ev[2] = "End Battle" -> Step("alive", lvl, "none")
      [] ev[2] = "Level" ->
            IF ev[3] = lvl + 1 THEN Step("battle", lvl + 1, "none")
            ELSE Step("battle", lvl, "AssertionError")
      [] ev[2] = "Death" -> Step("dead", lvl, "none")
      [] OTHER -> Step("battle", lvl, "ValueError")

(* A mutant of CaseBattle: a second Begin Battle is ignored. *)
CaseBattleBeginAgain(lvl, ev) ==
    CASE ev[2] \in {"Begin Battle", "End Battle"} ->
            Step(IF ev[2] = "End Battle" THEN "alive" ELSE "battle", lvl, "none")
      [] ev[2] = "Level" ->
            IF ev[3] = lvl + 1 THEN Step("battle", lvl + 1, "none")
            ELSE Step("battle", lvl, "AssertionError")
      [] ev[2] = "Death" ->
            Step("dead", lvl, IF ev[4] = "BATTLE" THEN "none" ELSE "AssertionError")
      [] OTHER -> Step("battle", lvl, "ValueError")

CaseBattle(lvl, ev) ==
    CASE ev[2] = "End Battle" -> Step("alive", lvl, "none")
      [] ev[2] = "Level" ->
            IF ev[3] = lvl + 1 THEN Step("battle", lvl + 1, "none")
            ELSE Step("battle", lvl, "AssertionError")
      [] ev[2] = "Death" ->
            Step("dead", lvl, IF ev[4] = "BATTLE" THEN "none" ELSE "AssertionError")
      [] OTHER -> Step("battle", lvl, "ValueError")

(* A mutant of CaseDead: a Revive is accepted at any level. *)
CaseDeadReviveAnyLevel(lvl, ev) ==
    CASE ev[2] = "Revive" -> Step("alive", lvl, "none")
      [] ev[2] = "End Battle" -> Step("dead", lvl, "none")
      [] OTHER -> Step("dead", lvl, "ValueError")

CaseDead(lvl, ev) ==
    CASE ev[2] = "Revive" ->
            Step("alive", lvl, IF lvl = ev[3] THEN "none" ELSE "AssertionError")
      [] ev[2] = "End Battle" -> Step("dead", lvl, "none")
      [] OTHER -> Step("dead", lvl, "ValueError")

(* A mutant of CaseDone: End Battle is ignored, as it is in "dead". *)
CaseDoneEndBattle(lvl, ev) ==
    IF ev[2] = "End Battle" THEN Step("done", lvl, "none")
    ELSE Step("done", lvl, "ValueError")

CaseDone(lvl, ev) == Step("done", lvl, "ValueError")

Transition(st, lvl, ev) ==
    CASE st = "unalive" -> CaseUnalive(lvl, ev)
      [] st = "alive" -> CaseAlive(lvl, ev)
      [] st = "battle" -> CaseBattle(lvl, ev)
      [] st = "dead" -> CaseDead(lvl, ev)
      [] st = "done" -> CaseDone(lvl, ev)
      [] OTHER -> Step(st, lvl, "ValueError")

(* A mutant of FinalLevelOk: the declared level is only a lower bound. *)
FinalLevelAtLeast(lvl, final) == lvl >= final

(* A mutant of FinalLevelOk: a level that was never set passes. *)
FinalLevelOrUnset(lvl, final) == lvl = None \/ lvl = final

(* The assert of lines 266-269. *)
FinalLevelOk(lvl, final) == lvl = final

----------------------------------------------------------------------------
(* The history loop, lines 177-269, for a marble table that passed the     *)
(* earlier stages.  The list events of a marble is read by the loop one     *)
(* event at a time and nothing else reads it, so the model draws each next  *)
(* event when the loop asks for it; events.sort (line 208) makes the time   *)
(* of an event at least the time of the event before it.  The rows of the   *)
(* four event tables that a stream does not hold are rows of other marbles  *)
(* or rows that come later in the stream.  No event is fixed in advance     *)
(* here: the variable events stays empty.                                  *)

(* The marble tables: at most as many rows as there are names, a name may   *)
(* occur twice.                                                            *)
MarbleTables(n) == [1..n -> { MarbleRow(m, "red", f) : m \in MarbleNames, f \in Levels }]

Init ==
    /\ \E n \in 0..Cardinality(MarbleNames) : marbles_list \in MarbleTables(n)
    /\ colors_list = NotModelled /\ begins = NotModelled /\ levels = NotModelled
    /\ ends = NotModelled /\ battle_list = NotModelled /\ battles_df = NotModelled
    /\ battle_colors = NotModelled /\ battle_marbles = NotModelled
    /\ rows = <<>> /\ i = 0 /\ bk = 1
    /\ pc = "history"
    /\ err = "none"
    /\ mk = 1
    /\ event = <<>>
    /\ state = Unset
    /\ level = None
    /\ events = <<>> /\ ek = 0
    /\ time = NotModelled /\ time_text = NotModelled

marbles == DictKeys(marbles_list, "Marble Name")
marble == marbles[mk]

(* for marble in marbles: ... state = "unalive"; level = None *)
StartMarble ==
    /\ pc = "history"
    /\ mk <= Len(marbles)
    /\ event' = <<>>
    /\ state' = "unalive"
    /\ level' = None
    /\ pc' = "events"
    /\ UNCHANGED <<tables, battles_df, rows, err, i, bk, mk, stream, codec>>

(* Lines 180-206 for the first marble, in a dataset whose begin, level, end  *)
(* or battle-marbles table has no row: the DataFrame of an empty list has   *)
(* no columns, and df["Marble Name"] raises KeyError.  The four tables are  *)
(* not part of this specification, so this is a choice of the dataset.      *)
EmptyTable ==
    /\ pc = "history"
    /\ mk = 1
    /\ mk <= Len(marbles)
    /\ pc' = "raised"
    /\ err' = "KeyError"
    /\ UNCHANGED <<tables, battles_df, rows, i, bk, history, stream, codec>>

(* for event in events: the next event of the sorted list *)
NextEvent ==
    /\ pc = "events"
    /\ \E ev \in Events :
          /\ event # <<>> => ev[1] >= event[1]
          /\ event' = ev
    /\ pc' = "match"
    /\ UNCHANGED <<tables, battles_df, rows, err, i, bk, mk, state, level, stream, codec>>

(* the body of the loop: match state *)
MatchEvent ==
    /\ pc = "match"
    /\ LET r == Transition(state, level, event)
       IN  /\ state' = r.state
           /\ level' = r.level
           /\ err' = r.err
           /\ pc' = IF r.err = "none" THEN "events" ELSE "raised"
    /\ UNCHANGED <<tables, battles_df, rows, i, bk, mk, event, stream, codec>>

(* A mutant of CheckFinalLevel: the marble must also have survived. *)
CheckFinalLevelWhenDone ==
    /\ pc = "events"
    /\ ek >= Len(events)
    /\ IF state = "done" /\ FinalLevelOk(level, FinalLevel(marble))
       THEN /\ mk' = mk + 1
            /\ pc' = "history"
            /\ err' = err
       ELSE /\ mk' = mk
            /\ pc' = "raised"
            /\ err' = "AssertionError"
    /\ UNCHANGED <<tables, battles_df, rows, i, bk, event, state, level, stream, codec>>

(* the list is exhausted: the assert of lines 266-269 *)
CheckFinalLevel ==
    /\ pc = "events"
    /\ ek >= Len(events)
    /\ IF FinalLevelOk(level, FinalLevel(marble))
       THEN /\ mk' = mk + 1
            /\ pc' = "history"
            /\ err' = err
       ELSE /\ mk' = mk
            /\ pc' = "raised"
            /\ err' = "AssertionError"
    /\ UNCHANGED <<tables, battles_df, rows, i, bk, event, state, level, stream, codec>>

(* line 271 *)
Return ==
    /\ pc = "history"
    /\ mk > Len(marbles)
    /\ pc' = "return"
    /\ UNCHANGED <<tables, battles_df, rows, err, i, bk, history, stream, codec>>

Next == StartMarble \/ EmptyTable \/ NextEvent \/ MatchEvent \/ CheckFinalLevel \/ Return

Spec == Init /\ [][Next]_vars

----------------------------------------------------------------------------
(* Schema validation, lines 46-144.  Each table is read by get_rows when    *)
(* its turn comes and validated against the tables validated before it; a  *)
(* row that fails its schema ends validate() with SchemaError.  A string    *)
(* that a regular expression reads is a sequence of characters.            *)

MaxFileRows == 1

ColorNames == {"red", "blue"}
BattleIds == {"b1", "b2"}
(* The class [\dABCDEF] of HEX_CODE_REGEX (line 26).  In a pattern that is  *)
(* a str, \d matches every decimal digit of Unicode; "U+0663" stands for    *)
(* one that is not ASCII (ARABIC-INDIC DIGIT THREE).                        *)
HexDigits == {"0", "1", "2", "3", "4", "5", "6", "7", "8", "9",
              "A", "B", "C", "D", "E", "F", "U+0663"}

(* HEX_CODE_REGEX.match(value), lines 26-30: "#" and six hex digits at the  *)
(* start of the value.                                                     *)
is_hex_code(value) ==
    /\ Len(value) >= 7
    /\ value[1] = "#"
    /\ \A k \in 2..7 : value[k] \in HexDigits

is_valid_level(value) == value >= 0

ColorRow(color, hex) == ("Color" :> color) @@ ("Hex Code" :> hex)
BeginRow(t, name, loc, l, ty) ==
    ("Time" :> t) @@ ("Marble Name" :> name) @@ ("Location" :> loc)
    @@ ("Level" :> l) @@ ("Type" :> ty)
LevelRow(t, name, l) == ("Time" :> t) @@ ("Marble Name" :> name) @@ ("Level" :> l)
EndRow(t, name, loc, l, ty) ==
    ("Time" :> t) @@ ("Marble Name" :> name) @@ ("Location" :> loc)
    @@ ("Level" :> l) @@ ("Type" :> ty)
BattleRow(id, b, e) == ("Battle Id" :> id) @@ ("Begin" :> b) @@ ("End" :> e)
BattleColorRow(id, color) ==
    ("Battle Id" :> id) @@ ("Color" :> color) @@ ("Is Winner" :> TRUE)
BattleMarbleRow(id, name) == ("Battle Id" :> id) @@ ("Marble Name" :> name)

(* The keys of the dicts colors (line 48) and battles (line 119); those of  *)
(* marbles (line 70) are MarbleKeys.                                       *)
ColorKeys == { colors_list[j]["Color"] : j \in 1..Len(colors_list) }
BattleKeys == { battle_list[j]["Battle Id"] : j \in 1..Len(battle_list) }

(* The schemas: what one row must satisfy. *)
ValidColorRow(r) == is_hex_code(r["Hex Code"])

ValidMarbleRow(r) ==
    /\ r["Color"] \in ColorKeys
    /\ is_valid_level(r["Final Level"])
    /\ r["Kills"] >= 0

ValidBeginRow(r) ==
    /\ r["Marble Name"] \in MarbleKeys
    /\ (r["Location"] = "-" \/ r["Location"] \in MarbleKeys)
    /\ is_valid_level(r["Level"])
    /\ r["Type"] \in {"Born", "Summon", "Revive"}

ValidLevelRow(r) ==
    /\ r["Marble Name"] \in MarbleKeys
    /\ is_valid_level(r["Level"])

(* A mutant of ValidEndRow: any Location is accepted. *)
ValidEndRowAnyLocation(r) ==
    /\ r["Marble Name"] \in MarbleKeys
    /\ is_valid_level(r["Level"])
    /\ r["Type"] \in {"Death", "Survive"}

ValidEndRow(r) ==
    /\ r["Marble Name"] \in MarbleKeys
    /\ (r["Location"] = "BATTLE" \/ r["Location"] = "-" \/ r["Location"] \in MarbleKeys)
    /\ is_valid_level(r["Level"])
    /\ r["Type"] \in {"Death", "Survive"}

ValidBattleRow(r) == TRUE

ValidBattleColorRow(r) ==
    /\ r["Battle Id"] \in BattleKeys
    /\ r["Color"] \in ColorKeys

ValidBattleMarbleRow(r) ==
    /\ r["Battle Id"] \in BattleKeys
    /\ r["Marble Name"] \in MarbleKeys

(* The texts a Hex Code column may hold: a hex code, and texts that differ  *)
(* from one in the case of a letter, in the first character, in the length  *)
(* or in the script of a digit.                                            *)
HexTexts ==
    { <<"#", "F", "F", "0", "0", "9", "A">>,
      <<"#", "f", "f", "0", "0", "9", "A">>,
      <<"F", "F", "0", "0", "9", "A", "0">>,
      <<"#", "F", "F", "0", "0", "9">>,
      <<"#", "F", "F", "0", "0", "9", "A", "0">>,
      <<"#", "F", "F", "0", "0", "9", "A", "Z">>,
      <<"#", "F", "F", "0", "0", "9", "U+0663">>,
      <<>> }

(* The rows a file may hold. *)
FileRows(table) ==
    CASE table = "colors" ->
            { ColorRow("red", hex) : hex \in HexTexts }
      [] table = "marbles" -> { MarbleRow("m1", c, 0) : c \in ColorNames }
      [] table = "begin" ->
            { BeginRow(0, m, loc, 0, "Born") :
                m \in MarbleNames, loc \in {"-", "BATTLE"} \cup MarbleNames }
      [] table = "level" -> { LevelRow(1, m, 1) : m \in MarbleNames }
      [] table = "end" ->
            { EndRow(2, m, loc, 1, "Death") :
                m \in MarbleNames, loc \in {"-", "BATTLE"} \cup MarbleNames }
      [] table = "battles" -> { BattleRow("b1", 0, 2) }
      [] table = "battle-colors" ->
            { BattleColorRow(id, c) : id \in BattleIds, c \in ColorNames }
      [] table = "battle-marbles" ->
            { BattleMarbleRow(id, m) : id \in BattleIds, m \in MarbleNames }

(* The files of n rows. *)
Files(table, n) == [1..n -> FileRows(table)]

TableNames == {"colors", "marbles", "begin", "level", "end", "battles",
               "battle-colors", "battle-marbles"}

(* The position after get_rows of a table. *)
ValidatePc(table) ==
    CASE table = "colors" -> "colors:validate"
      [] table = "marbles" -> "marbles:validate"
      [] table = "begin" -> "begin:validate"
      [] table = "level" -> "level:validate"
      [] table = "end" -> "end:validate"
      [] table = "battles" -> "battles:validate"
      [] table = "battle-colors" -> "battle-colors:validate"
      [] table = "battle-marbles" -> "battle-marbles:validate"

SchemaInit ==
    /\ colors_list = Unbound /\ marbles_list = Unbound /\ begins = Unbound
    /\ levels = Unbound /\ ends = Unbound /\ battle_list = Unbound
    /\ battle_colors = Unbound /\ battle_marbles = Unbound /\ battles_df = Unbound
    /\ rows = <<>> /\ i = 0 /\ bk = 1
    /\ pc = "colors"
    /\ err = "none"
    /\ mk = 1 /\ event = <<>> /\ state = Unset /\ level = None
    /\ events = <<>> /\ ek = 0
    /\ time = NotModelled /\ time_text = NotModelled

(* get_rows(data_path / "<table>.csv"), lines 37-40 *)
GetRows ==
    /\ pc \in TableNames
    /\ \E n \in 0..MaxFileRows : rows' \in Files(pc, n)
    /\ pc' = ValidatePc(pc)
    /\ UNCHANGED <<tables, battles_df, err, i, bk, history, stream, codec>>

(* A mutant of Validated: a table that fails its schema is reported and     *)
(* the run goes on with the next table.                                    *)
ValidatedKeepGoing(ok, next) ==
    /\ pc' = next
    /\ err' = IF ok THEN err ELSE "SchemaError"
    /\ UNCHANGED <<battles_df, rows, i, bk, history, stream, codec>>

(* Schema([...]).validate(rows): every row must pass. *)
Validated(ok, next) ==
    /\ pc' = IF ok THEN next ELSE "raised"
    /\ err' = IF ok THEN err ELSE "SchemaError"
    /\ UNCHANGED <<battles_df, rows, i, bk, history, stream, codec>>

(* line 47 *)
ValidateColors ==
    /\ pc = "colors:validate"
    /\ LET ok == \A j \in 1..Len(rows) : ValidColorRow(rows[j])
       IN  /\ colors_list' = IF ok THEN rows ELSE colors_list
           /\ Validated(ok, "marbles")
    /\ UNCHANGED <<marbles_list, begins, levels, ends, battle_list, battle_colors, battle_marbles>>

(* line 69 *)
ValidateMarbles ==
    /\ pc = "marbles:validate"
    /\ LET ok == \A j \in 1..Len(rows) : ValidMarbleRow(rows[j])
       IN  /\ marbles_list' = IF ok THEN rows ELSE marbles_list
           /\ Validated(ok, "begin")
    /\ UNCHANGED <<colors_list, begins, levels, ends, battle_list, battle_colors, battle_marbles>>

(* line 83 *)
ValidateBegin ==
    /\ pc = "begin:validate"
    /\ LET ok == \A j \in 1..Len(rows) : ValidBeginRow(rows[j])
       IN  /\ begins' = IF ok THEN rows ELSE begins
           /\ Validated(ok, "level")
    /\ UNCHANGED <<colors_list, marbles_list, levels, ends, battle_list, battle_colors, battle_marbles>>

(* line 94 *)
ValidateLevel ==
    /\ pc = "level:validate"
    /\ LET ok == \A j \in 1..Len(rows) : ValidLevelRow(rows[j])
       IN  /\ levels' = IF ok THEN rows ELSE levels
           /\ Validated(ok, "end")
    /\ UNCHANGED <<colors_list, marbles_list, begins, ends, battle_list, battle_colors, battle_marbles>>

(* line 107 *)
ValidateEnd ==
    /\ pc = "end:validate"
    /\ LET ok == \A j \in 1..Len(rows) : ValidEndRow(rows[j])
       IN  /\ ends' = IF ok THEN rows ELSE ends
           /\ Validated(ok, "battles")
    /\ UNCHANGED <<colors_list, marbles_list, begins, levels, battle_list, battle_colors, battle_marbles>>

(* line 118 *)
ValidateBattles ==
    /\ pc = "battles:validate"
    /\ LET ok == \A j \in 1..Len(rows) : ValidBattleRow(rows[j])
       IN  /\ battle_list' = IF ok THEN rows ELSE battle_list
           /\ Validated(ok, "battle-colors")
    /\ UNCHANGED <<colors_list, marbles_list, begins, levels, ends, battle_colors, battle_marbles>>

(* lines 130-132 *)
ValidateBattleColors ==
    /\ pc = "battle-colors:validate"
    /\ LET ok == \A j \in 1..Len(rows) : ValidBattleColorRow(rows[j])
       IN  /\ battle_colors' = IF ok THEN rows ELSE battle_colors
           /\ Validated(ok, "battle-marbles")
    /\ UNCHANGED <<colors_list, marbles_list, begins, levels, ends, battle_list, battle_marbles>>

(* lines 142-144 *)
ValidateBattleMarbles ==
    /\ pc = "battle-marbles:validate"
    /\ LET ok == \A j \in 1..Len(rows) : ValidBattleMarbleRow(rows[j])
       IN  /\ battle_marbles' = IF ok THEN rows ELSE battle_marbles
           /\ Validated(ok, "frames")
    /\ UNCHANGED <<colors_list, marbles_list, begins, levels, ends, battle_list, battle_colors>>

SchemaNext ==
    \/ GetRows
    \/ ValidateColors \/ ValidateMarbles \/ ValidateBegin \/ ValidateLevel
    \/ ValidateEnd \/ ValidateBattles \/ ValidateBattleColors
    \/ ValidateBattleMarbles

SpecSchema == SchemaInit /\ [][SchemaNext]_vars

----------------------------------------------------------------------------
(* The battle interval check, lines 157-164, for a battle table that       *)
(* passed BATTLE_SCHEMA: any Begin and End, in any order of rows.          *)

MaxBattles == 3
MaxBattleTime == 3

BattleTimes == 0..MaxBattleTime

(* battle_list.sort(key=lambda x: x["Begin"]): stable, a row goes behind    *)
(* the rows before it whose Begin is not larger.                           *)
InsertByBegin(sorted, r) ==
    LET k == Cardinality({ j \in 1..Len(sorted) : sorted[j]["Begin"] <= r["Begin"] })
    IN  SubSeq(sorted, 1, k) \o <<r>> \o SubSeq(sorted, k + 1, Len(sorted))

RECURSIVE SortByBegin(_)
SortByBegin(list) ==
    IF list = <<>> THEN <<>>
    ELSE InsertByBegin(SortByBegin(SubSeq(list, 1, Len(list) - 1)), list[Len(list)])

(* A mutant of OverlapOk: a battle may begin when the one before it ends. *)
OverlapOkTouching(battle1, battle2) == battle1["End"] <= battle2["Begin"]

(* The assert of lines 162-164. *)
OverlapOk(battle1, battle2) == battle1["End"] < battle2["Begin"]

(* A battle table of the given Begin and End values: the rows carry the    *)
(* ids b1, b2, b1, ... in file order.                                      *)
BattleTable(t) ==
    [k \in DOMAIN t |-> BattleRow(IF k % 2 = 1 THEN "b1" ELSE "b2", t[k][1], t[k][2])]

OverlapInit ==
    /\ \E n \in 0..MaxBattles :
         \E t \in [1..n -> BattleTimes \X BattleTimes] : battle_list = BattleTable(t)
    /\ battles_df = battle_list
    /\ colors_list = NotModelled /\ marbles_list = NotModelled
    /\ begins = NotModelled /\ levels = NotModelled /\ ends = NotModelled
    /\ battle_colors = NotModelled /\ battle_marbles = NotModelled
    /\ rows = <<>> /\ i = 0 /\ bk = 1
    /\ pc = "sort"
    /\ err = "none"
    /\ mk = 1 /\ event = <<>> /\ state = Unset /\ level = None
    /\ events = <<>> /\ ek = 0
    /\ time = NotModelled /\ time_text = NotModelled

(* line 158 *)
SortBattles ==
    /\ pc = "sort"
    /\ battle_list' = SortByBegin(battle_list)
    /\ i' = 0
    /\ pc' = "overlap"
    /\ UNCHANGED <<colors_list, marbles_list, begins, levels, ends,
                   battle_colors, battle_marbles, battles_df, rows, err, bk, history, stream, codec>>

(* one turn of the loop of lines 159-164 *)
CheckOverlap ==
    /\ pc = "overlap"
    /\ i < Len(battle_list) - 1
    /\ IF OverlapOk(battle_list[i + 1], battle_list[i + 2])
       THEN /\ i' = i + 1
            /\ pc' = pc
            /\ err' = err
       ELSE /\ i' = i
            /\ pc' = "raised"
            /\ err' = "AssertionError"
    /\ UNCHANGED <<tables, battles_df, rows, bk, history, stream, codec>>

(* the loop of line 159 is over *)
OverlapDone ==
    /\ pc = "overlap"
    /\ i >= Len(battle_list) - 1
    /\ pc' = "roster"
    /\ UNCHANGED <<tables, battles_df, rows, err, i, bk, history, stream, codec>>

OverlapNext == SortBattles \/ CheckOverlap \/ OverlapDone

SpecOverlap == OverlapInit /\ [][OverlapNext]_vars

----------------------------------------------------------------------------
(* The battle roster check, lines 166-174, for tables that passed the      *)
(* schemas: every Battle Id, Color and Marble Name of battle-colors and    *)
(* battle-marbles resolves.  battle_colors and battle_marbles stand for the *)
(* DataFrames of lines 152-153 (line 168 binds the name battle_colors to    *)
(* something else, and nothing reads it afterwards).                       *)

MaxEntries == 2

RosterMarbleTables(n) == [1..n -> { MarbleRow(m, c, 0) : m \in MarbleNames, c \in ColorNames }]

RosterBattleTables ==
    { <<>>, <<BattleRow("b1", 0, 1)>>, <<BattleRow("b1", 0, 1), BattleRow("b2", 2, 3)>> }

(* the keys of the dict battles, line 119, in file order *)
battles == DictKeys(battles_df, "Battle Id")

RosterInit ==
    /\ \E n \in 1..Cardinality(MarbleNames) : marbles_list \in RosterMarbleTables(n)
    /\ battles_df \in RosterBattleTables
    /\ battle_list = battles_df
    /\ \E n \in 0..MaxEntries :
         battle_colors \in [1..n -> { BattleColorRow(id, c) : id \in BattleKeys, c \in ColorNames }]
    /\ \E n \in 0..MaxEntries :
         battle_marbles \in [1..n -> { BattleMarbleRow(id, m) : id \in BattleKeys, m \in MarbleKeys }]
    /\ colors_list = NotModelled
    /\ begins = NotModelled /\ levels = NotModelled /\ ends = NotModelled
    /\ rows = <<>> /\ i = 0 /\ bk = 1
    /\ pc = "roster"
    /\ err = "none"
    /\ mk = 1 /\ event = <<>> /\ state = Unset /\ level = None
    /\ events = <<>> /\ ek = 0
    /\ time = NotModelled /\ time_text = NotModelled

(* battle_colors_df[battle_colors_df["Battle Id"] == id]["Color"] *)
ColorsOfBattle(id) ==
    { battle_colors[j]["Color"] :
        j \in { h \in 1..Len(battle_colors) : battle_colors[h]["Battle Id"] = id } }

(* battle_marbles_df[...].merge(marbles_df, on="Marble Name")["Color"]: the  *)
(* Color of every marble row whose name a row of the battle holds.          *)
MergedColors(id) ==
    { marbles_list[h]["Color"] :
        h \in { g \in 1..Len(marbles_list) :
                  \E j \in 1..Len(battle_marbles) :
                     /\ battle_marbles[j]["Battle Id"] = id
                     /\ battle_marbles[j]["Marble Name"] = marbles_list[g]["Marble Name"] } }

(* .isin(battle_colors).all() *)
RosterOk(id) == MergedColors(id) \subseteq ColorsOfBattle(id)

(* One turn of the loop of lines 167-174.  pd.DataFrame of an empty list    *)
(* has no columns, so df["Battle Id"] raises KeyError when battle-colors    *)
(* (line 168) or battle-marbles (line 170) has no row at all.               *)
CheckRoster ==
    /\ pc = "roster"
    /\ bk <= Len(battles)
    /\ IF battle_colors = <<>> \/ battle_marbles = <<>>
       THEN /\ bk' = bk
            /\ pc' = "raised"
            /\ err' = "KeyError"
       ELSE IF RosterOk(battles[bk])
            THEN /\ bk' = bk + 1
                 /\ pc' = pc
                 /\ err' = err
            ELSE /\ bk' = bk
                 /\ pc' = "raised"
                 /\ err' = "AssertionError"
    /\ UNCHANGED <<tables, battles_df, rows, i, history, stream, codec>>

(* the loop of line 167 is over *)
RosterDone ==
    /\ pc = "roster"
    /\ bk > Len(battles)
    /\ pc' = "history"
    /\ UNCHANGED <<tables, battles_df, rows, err, i, bk, history, stream, codec>>

RosterNext == CheckRoster \/ RosterDone

SpecRoster == RosterInit /\ [][RosterNext]_vars

----------------------------------------------------------------------------
(* The list events of a marble, lines 178-208, built from the tables.      *)

(* left.merge(right, on=key): for every row of left, in order, the rows of  *)
(* right with the same key, in order (the columns of right are all that is  *)
(* read afterwards).                                                       *)
RECURSIVE MergeRows(_, _, _)
MergeRows(left, right, key) ==
    IF left = <<>> THEN <<>>
    ELSE MergeRows(SubSeq(left, 1, Len(left) - 1), right, key)
         \o RowsOf(right, key, left[Len(left)][key])

(* lines 179-186 and 192-197: one tuple for each begin (end) row of the marble *)
RowEvents(df, name) ==
    LET own == RowsOf(df, "Marble Name", name)
    IN  [k \in 1..Len(own) |->
            <<own[k]["Time"], own[k]["Type"], own[k]["Level"], own[k]["Location"]>>]

(* lines 187-191 *)
LevelRowEvents(name) ==
    LET own == RowsOf(levels, "Marble Name", name)
    IN  [k \in 1..Len(own) |-> <<own[k]["Time"], "Level", own[k]["Level"]>>]

(* lines 198-207: the battles of the marble, Begin Battle for each of them  *)
(* and then End Battle for each of them                                    *)
BattleRowEvents(name) ==
    LET own == MergeRows(RowsOf(battle_marbles, "Marble Name", name), battles_df, "Battle Id")
    IN  [k \in 1..Len(own) |-> <<own[k]["Begin"], "Begin Battle">>]
        \o [k \in 1..Len(own) |-> <<own[k]["End"], "End Battle">>]

(* events.sort(key=lambda ev: ev[0]), line 208: stable, an event goes      *)
(* behind the events of a smaller time and behind the events of its own     *)
(* time that were appended before it.                                      *)
SortByTime(list) ==
    LET place(l, j) ==
            Cardinality({ k \in 1..Len(l) :
                            \/ l[k][1] < l[j][1]
                            \/ l[k][1] = l[j][1] /\ k <= j })
        Sorted(l) == [p \in 1..Len(l) |-> l[CHOOSE j \in 1..Len(l) : place(l, j) = p]]
    IN  CHOOSE sorted \in { Sorted(l) : l \in {list} } : TRUE

(* A mutant of Appended: the battle events are appended first. *)
AppendedBattlesFirst(name) ==
    BattleRowEvents(name) \o RowEvents(begins, name) \o LevelRowEvents(name)
    \o RowEvents(ends, name)

(* the list before line 208 *)
Appended(name) ==
    RowEvents(begins, name) \o LevelRowEvents(name) \o RowEvents(ends, name)
    \o BattleRowEvents(name)

EventsOf(name) == SortByTime(Appended(name))

(* Lines 177-215 for the next marble: the list is built and sorted, the     *)
(* state machine starts.                                                   *)
BuildEvents ==
    /\ pc = "history"
    /\ mk <= Len(marbles)
    /\ events' = EventsOf(marble)
    /\ ek' = 0
    /\ event' = <<>>
    /\ state' = "unalive"
    /\ level' = None
    /\ pc' = "events"
    /\ UNCHANGED <<tables, battles_df, rows, err, i, bk, mk, codec>>

(* for event in events: the next event of the list *)
FetchEvent ==
    /\ pc = "events"
    /\ ek < Len(events)
    /\ event' = events[ek + 1]
    /\ ek' = ek + 1
    /\ pc' = "match"
    /\ UNCHANGED <<tables, battles_df, rows, err, i, bk, mk, state, level, events, codec>>

----------------------------------------------------------------------------
(* The whole of validate(), lines 43-271: the stages above, one after the   *)
(* other, over the files of a dataset.  The files are drawn from one        *)
(* dataset by leaving rows out: two marbles, m1 that is born, fights in b1, *)
(* levels up and dies there, and m2 that is born and fights in the last     *)
(* battle; three battle rows of which the second touches the first and the  *)
(* third.                                                                  *)

Dataset(table) ==
    CASE table = "colors" ->
            << ColorRow("red", <<"#", "F", "F", "0", "0", "0", "0">>),
               ColorRow("blue", <<"#", "0", "0", "f", "f">>) >>
      [] table = "marbles" -> << MarbleRow("m1", "red", 1), MarbleRow("m2", "red", 0) >>
      [] table = "begin" ->
            << BeginRow(0, "m1", "-", 0, "Born"), BeginRow(0, "m2", "-", 0, "Born") >>
      [] table = "level" -> << LevelRow(1, "m1", 1) >>
      [] table = "end" -> << EndRow(2, "m1", "BATTLE", 1, "Death") >>
      [] table = "battles" ->
            << BattleRow("b1", 0, 2), BattleRow("b2", 2, 3), BattleRow("b2", 3, 4) >>
      [] table = "battle-colors" ->
            << BattleColorRow("b1", "red"), BattleColorRow("b2", "red") >>
      [] table = "battle-marbles" ->
            << BattleMarbleRow("b1", "m1"), BattleMarbleRow("b2", "m2") >>

(* The rows of a file whose line numbers are kept, in the order of the file. *)
RECURSIVE Subfile(_, _)
Subfile(file, kept) ==
    IF file = <<>> THEN <<>>
    ELSE LET front == Subfile(SubSeq(file, 1, Len(file) - 1), kept)
         IN  IF Len(file) \in kept THEN Append(front, file[Len(file)]) ELSE front

(* get_rows(data_path / "<table>.csv"), lines 37-40, of such a dataset *)
ReadTable ==
    /\ pc \in TableNames
    /\ \E kept \in SUBSET (1..Len(Dataset(pc))) : rows' = Subfile(Dataset(pc), kept)
    /\ pc' = ValidatePc(pc)
    /\ UNCHANGED <<tables, battles_df, err, i, bk, history, stream, codec>>

(* lines 146-153: the DataFrames; battles_df is the only one whose order    *)
(* differs from its list later on (line 158 sorts the list in place)        *)
Frames ==
    /\ pc = "frames"
    /\ battles_df' = battle_list
    /\ pc' = "sort"
    /\ UNCHANGED <<tables, rows, err, i, bk, history, stream, codec>>

(* pd.DataFrame of an empty list has no columns: df["Marble Name"] (lines   *)
(* 180, 188, 193, 199) and merge(battles_df, on="Battle Id") (line 200)     *)
(* need them.                                                              *)
FramesHaveColumns ==
    /\ begins # <<>> /\ levels # <<>> /\ ends # <<>>
    /\ battle_marbles # <<>> /\ battles_df # <<>>

(* lines 177-215 for the next marble *)
StartReplay == FramesHaveColumns /\ BuildEvents

(* lines 180-200 for the first marble when a table has no row: KeyError *)
EmptyFrame ==
    /\ pc = "history"
    /\ mk <= Len(marbles)
    /\ ~FramesHaveColumns
    /\ pc' = "raised"
    /\ err' = "KeyError"
    /\ UNCHANGED <<tables, battles_df, rows, i, bk, history, stream, codec>>

ValidateNext ==
    \/ ReadTable
    \/ ValidateColors \/ ValidateMarbles \/ ValidateBegin \/ ValidateLevel
    \/ ValidateEnd \/ ValidateBattles \/ ValidateBattleColors
    \/ ValidateBattleMarbles
    \/ Frames
    \/ SortBattles \/ CheckOverlap \/ OverlapDone
    \/ CheckRoster \/ RosterDone
    \/ StartReplay \/ EmptyFrame \/ FetchEvent \/ MatchEvent \/ CheckFinalLevel
    \/ Return

SpecValidate == SchemaInit /\ [][ValidateNext]_vars

----------------------------------------------------------------------------
(* The replay of lines 177-269 over the tables of a dataset that passed     *)
(* the schemas, the interval check and the roster check.  The battles, the  *)
(* participants and the marbles are given; a row of begin.csv, level.csv    *)
(* or end.csv enters its table when the loop of line 221 reaches the event  *)
(* made of it, at any place of the table such that the list of lines        *)
(* 178-208, built from the tables with the row, continues the events        *)
(* replayed so far with that event.  A run is the run of validate() on      *)
(* every dataset whose tables extend the ones reached: the loop never       *)
(* looks at an event behind the one that raises.                           *)

MaxMarbleRows == 2
MaxStreamTime == 2

StreamTimes == 0..MaxStreamTime

(* The rows begin.csv, level.csv and end.csv may hold for a marble.  The    *)
(* replay reads neither the Location of a begin row nor the Level of an     *)
(* end row.                                                                *)
MarbleFileRows(table, name, times) ==
    CASE table = "begin" ->
            { BeginRow(t, name, "-", l, ty) :
                t \in times, l \in Levels, ty \in {"Born", "Summon", "Revive"} }
      [] table = "level" -> { LevelRow(t, name, l) : t \in times, l \in Levels }
      [] table = "end" ->
            { EndRow(t, name, loc, 0, ty) :
                t \in times, loc \in {"BATTLE", "-"}, ty \in {"Death", "Survive"} }

(* The battle tables that pass the assert of lines 162-164 once sorted. *)
NoOverlap(list) == \A j \in 1..(Len(list) - 1) : OverlapOk(list[j], list[j + 1])

(* The dataset: the marble m1 with any Final Level and the marble m2; one   *)
(* battle with any Begin and End; m2 in the battle, after any rows of m1    *)
(* in battle-marbles.csv.                                                  *)
StreamInit ==
    /\ \E f \in Levels :
          marbles_list = <<MarbleRow("m1", "red", f), MarbleRow("m2", "red", 0)>>
    /\ \E t \in StreamTimes \X StreamTimes : battles_df = BattleTable(<<t>>)
    /\ battle_list = SortByBegin(battles_df)
    /\ \E n \in 0..MaxEntries :
          battle_marbles = [k \in 1..(n + 1) |->
                                BattleMarbleRow("b1", IF k <= n THEN "m1" ELSE "m2")]
    /\ begins = <<>> /\ levels = <<>> /\ ends = <<>>
    /\ colors_list = NotModelled /\ battle_colors = NotModelled
    /\ rows = <<>> /\ i = 0 /\ bk = 1
    /\ pc = "history"
    /\ err = "none"
    /\ mk = 1
    /\ event = <<>>
    /\ state = Unset
    /\ level = None
    /\ events = <<>> /\ ek = 0
    /\ time = NotModelled /\ time_text = NotModelled

InsertAt(list, k, r) == SubSeq(list, 1, k) \o <<r>> \o SubSeq(list, k + 1, Len(list))

(* for event in events: the next event of the list, made of a row of the    *)
(* marble that was not replayed before                                      *)
FetchRowAt(times) ==
    /\ pc = "events"
    /\ \E table \in {"begin", "level", "end"} :
         LET df == CASE table = "begin" -> begins
                     [] table = "level" -> levels
                     [] table = "end" -> ends
         IN  /\ Len(RowsOf(df, "Marble Name", marble)) < MaxMarbleRows
             /\ \E r \in MarbleFileRows(table, marble, times) : \E k \in 0..Len(df) :
                  /\ begins' = IF table = "begin" THEN InsertAt(df, k, r) ELSE begins
                  /\ levels' = IF table = "level" THEN InsertAt(df, k, r) ELSE levels
                  /\ ends' = IF table = "end" THEN InsertAt(df, k, r) ELSE ends
    /\ UNCHANGED <<colors_list, marbles_list, battle_list, battle_colors,
                   battle_marbles, battles_df, mk>>
    /\ \E name \in {marble} : events' = EventsOf(name)'
    /\ Len(events') = Len(events) + 1
    /\ SubSeq(events', 1, ek) = SubSeq(events, 1, ek)
    /\ SubSeq(events', ek + 2, Len(events')) = SubSeq(events, ek + 1, Len(events))
    /\ event' = events'[ek + 1]
    /\ ek' = ek + 1
    /\ pc' = "match"
    /\ UNCHANGED <<rows, err, i, bk, state, level, codec>>

FetchRow == FetchRowAt(StreamTimes)

(* lines 177-215 for the first marble *)
StartStream == mk = 1 /\ BuildEvents

StreamNext == StartStream \/ FetchRow \/ FetchEvent \/ MatchEvent \/ CheckFinalLevel

SpecStream == StreamInit /\ [][StreamNext]_vars

(* The same replay over longer times and two battles: the marble m1 alone,  *)
(* with Final Level 1; one or two battles in the order of their Begin, m1   *)
(* in each of them.                                                        *)
ReviveInit ==
    /\ marbles_list = <<MarbleRow("m1", "red", 1)>>
    /\ \E n \in 1..Cardinality(BattleIds) :
         \E t \in [1..n -> BattleTimes \X BattleTimes] : battles_df = BattleTable(t)
    /\ battle_list = SortByBegin(battles_df)
    /\ battle_list = battles_df
    /\ NoOverlap(battle_list)
    /\ battle_marbles = [k \in 1..Len(battles_df) |->
                            BattleMarbleRow(battles_df[k]["Battle Id"], "m1")]
    /\ begins = <<>> /\ levels = <<>> /\ ends = <<>>
    /\ colors_list = NotModelled /\ battle_colors = NotModelled
    /\ rows = <<>> /\ i = 0 /\ bk = 1
    /\ pc = "history"
    /\ err = "none"
    /\ mk = 1
    /\ event = <<>>
    /\ state = Unset
    /\ level = None
    /\ events = <<>> /\ ek = 0
    /\ time = NotModelled /\ time_text = NotModelled

FetchLateRow == FetchRowAt(BattleTimes)

(* line 271: m1 is the only marble.  A dataset with a table that has no   *)
(* row does not get here, it raises KeyError at lines 180-200              *)
(* (EmptyFrame).                                                           *)
StreamReturn == FramesHaveColumns /\ Return

ReviveNext ==
    \/ StartStream \/ FetchLateRow \/ FetchEvent \/ MatchEvent \/ CheckFinalLevel
    \/ StreamReturn

SpecRevive == ReviveInit /\ [][ReviveNext]_vars

----------------------------------------------------------------------------
(* The time codec, lines 9-23.  A time is a whole number of tenths of a     *)
(* second, a text is a sequence of characters.                             *)

MaxHours == 25

DigitChars == <<"0", "1", "2", "3", "4", "5", "6", "7", "8", "9">>

IsDigits(text) ==
    /\ text # <<>>
    /\ \A k \in 1..Len(text) : \E d \in 1..10 : DigitChars[d] = text[k]

(* int(text) of a text of digits *)
RECURSIVE DigitsValue(_)
DigitsValue(text) ==
    IF text = <<>> THEN 0
    ELSE 10 * DigitsValue(SubSeq(text, 1, Len(text) - 1))
         + (CHOOSE d \in 0..9 : DigitChars[d + 1] = text[Len(text)])

(* str(n) of a number n >= 0 *)
RECURSIVE Decimal(_)
Decimal(n) ==
    IF n < 10 THEN <<DigitChars[n + 1]>>
    ELSE Append(Decimal(n \div 10), DigitChars[(n % 10) + 1])

(* the format 02 of an int: at least two digits *)
Pad2(text) == IF Len(text) < 2 THEN <<"0">> \o text ELSE text

(* time.split(":"), line 10 *)
RECURSIVE Split(_)
Split(text) ==
    IF \A k \in 1..Len(text) : text[k] # ":" THEN <<text>>
    ELSE LET k == CHOOSE h \in 1..Len(text) :
                    text[h] = ":" /\ \A g \in 1..(h - 1) : text[g] # ":"
         IN  <<SubSeq(text, 1, k - 1)>> \o Split(SubSeq(text, k + 1, Len(text)))

(* float(text) in tenths, for a text of digits with at most one digit after *)
(* the point; -1 stands for the ValueError of every other text here.       *)
TenthsValue(text) ==
    IF IsDigits(text) THEN 10 * DigitsValue(text)
    ELSE IF /\ Len(text) >= 3
            /\ text[Len(text) - 1] = "."
            /\ IsDigits(SubSeq(text, 1, Len(text) - 2))
            /\ IsDigits(<<text[Len(text)]>>)
         THEN 10 * DigitsValue(SubSeq(text, 1, Len(text) - 2))
              + DigitsValue(<<text[Len(text)]>>)
         ELSE -1

(* lines 9-15: the time in tenths, or the exception *)
to_numeric_time(text) ==
    LET digits == Split(text)
    IN  IF Len(digits) # 3 THEN [err |-> "AssertionError", value |-> 0]
        ELSE IF ~IsDigits(digits[1]) \/ ~IsDigits(digits[2]) \/ TenthsValue(digits[3]) < 0
             THEN [err |-> "ValueError", value |-> 0]
             ELSE [err |-> "none",
                   value |-> 36000 * DigitsValue(digits[1]) + 600 * DigitsValue(digits[2])
                             + TenthsValue(digits[3])]

(* A mutant of to_display_time: the minutes are not reduced modulo 60. *)
to_display_time_all_minutes(t) ==
    Pad2(Decimal(t \div 36000)) \o <<":">> \o Pad2(Decimal(t \div 600))
    \o <<":">> \o Pad2(Decimal((t % 600) \div 10)) \o <<".">> \o Decimal(t % 10)

(* lines 18-23: hours = int(time // 3600), minutes = int(time // 60) % 60,  *)
(* seconds = time % 60, and the format 02:02:04.1f                         *)
to_display_time(t) ==
    Pad2(Decimal(t \div 36000)) \o <<":">> \o Pad2(Decimal((t \div 600) % 60))
    \o <<":">> \o Pad2(Decimal((t % 600) \div 10)) \o <<".">> \o Decimal(t % 10)

(* The times: every hour up to MaxHours, every minute, and seconds with and *)
(* without a fraction, below and above ten.                                *)
SampleTimes ==
    { 36000 * h + 600 * m + x :
        h \in 0..MaxHours, m \in 0..59, x \in {0, 5, 35, 90, 100, 599} }

(* Texts that no time displays as: fewer or more than three parts, a part   *)
(* that is no number, unpadded parts.                                      *)
OtherTexts ==
    { <<>>, <<"0", "1", ":", "0", "2">>, <<"1", ":", "2", ":", "3", ":", "4">>,
      <<"0", "1", "0", "2", "0", "3", ".", "5">>, <<":", ":">>,
      <<"x", ":", "0", "0", ":", "0", "0", ".", "0">>,
      <<"1", ":", "2", ":", "3">>, <<"1", ":", "2", ":", "3", ".", "5">> }

TimeInit ==
    /\ \/ pc = "time" /\ time \in SampleTimes /\ time_text = <<>>
       \/ pc = "text" /\ time = None /\ time_text \in OtherTexts
    /\ err = "none"
    /\ colors_list = NotModelled /\ marbles_list = NotModelled
    /\ begins = NotModelled /\ levels = NotModelled /\ ends = NotModelled
    /\ battle_list = NotModelled /\ battle_colors = NotModelled
    /\ battle_marbles = NotModelled /\ battles_df = NotModelled
    /\ rows = <<>> /\ i = 0 /\ bk = 1
    /\ mk = 1 /\ event = <<>> /\ state = Unset /\ level = None
    /\ events = <<>> /\ ek = 0

(* to_display_time(time) *)
DisplayTime ==
    /\ pc = "time"
    /\ time_text' = to_display_time(time)
    /\ pc' = "displayed"
    /\ UNCHANGED <<tables, battles_df, rows, err, i, bk, history, stream, time>>

(* to_numeric_time(time_text) *)
NumericTime ==
    /\ pc \in {"displayed", "text"}
    /\ LET r == to_numeric_time(time_text)
       IN  /\ err' = r.err
           /\ time' = IF r.err = "none" THEN r.value ELSE time
           /\ pc' = IF r.err = "none" THEN "parsed" ELSE "raised"
    /\ UNCHANGED <<tables, battles_df, rows, i, bk, history, stream, time_text>>

TimeNext == DisplayTime \/ NumericTime

SpecTime == TimeInit /\ [][TimeNext]_vars

----------------------------------------------------------------------------
(* The claims about the lifecycle state machine, checked under Spec.       *)

(* Some row of the table has the value in the column. *)
Resolves(table, key, value) == \E j \in 1..Len(table) : table[j][key] = value

(* The transition table of the specification, section 4.6: next state of   *)
(* every listed pair of a state and an event kind.                         *)
TableNext ==
    (<<"unalive", "Born">> :> "alive") @@ (<<"unalive", "Summon">> :> "alive")
    @@ (<<"alive", "Begin Battle">> :> "battle") @@ (<<"alive", "Survive">> :> "done")
    @@ (<<"battle", "End Battle">> :> "alive") @@ (<<"battle", "Level">> :> "battle")
    @@ (<<"battle", "Death">> :> "dead") @@ (<<"dead", "Revive">> :> "alive")
    @@ (<<"dead", "End Battle">> :> "dead")

(* C1: replaying one event from any state gives the next state of the      *)
(* transition table; Born/Summon set the level to the event's level,       *)
(* End Battle in "dead" changes nothing, and every pair that is not listed *)
(* aborts the replay with the lifecycle violation (ValueError).            *)
C1_TransitionTable ==
    [][pc = "match" =>
        IF <<state, event[2]>> \in DOMAIN TableNext
        THEN /\ state' = TableNext[<<state, event[2]>>]
             /\ state = "unalive" => level' = event[3] /\ err' = "none"
             /\ (state = "dead" /\ event[2] = "End Battle") =>
                    level' = level /\ err' = "none" /\ pc' = "events"
        ELSE /\ err' = "ValueError"
             /\ pc' = "raised"
             /\ state' = state
             /\ level' = level]_vars

(* An End Battle was replayed in "dead" and the replay goes on. *)
C1_Witness ==
    pc = "events" /\ state = "dead" /\ event # <<>> /\ event[2] = "End Battle"

(* C2: a Level event is accepted only in "battle" and only with the        *)
(* tracked level plus one; then the level grows by one and the state stays *)
(* "battle".  Any other Level event ends validation with an exception.     *)
C2_LevelUp ==
    [][(pc = "match" /\ event[2] = "Level") =>
        IF state = "battle" /\ event[3] = level + 1
        THEN err' = "none" /\ pc' = "events" /\ level' = level + 1 /\ state' = "battle"
        ELSE err' # "none" /\ pc' = "raised" /\ level' = level]_vars

(* A level-up was accepted. *)
C2_Witness ==
    /\ pc = "events" /\ state = "battle" /\ event # <<>>
    /\ event[2] = "Level" /\ level = event[3] /\ level >= 1

(* C3: when the events of a marble are exhausted without a violation, the  *)
(* marble is accepted exactly if the tracked level equals the Final Level   *)
(* of the marble's row (its first row, should the name occur twice);       *)
(* otherwise validation ends with the assertion of lines 266-269.          *)
C3_FinalLevel ==
    [][(pc = "events" /\ pc' # "match" /\ pc' # pc) =>
        LET first == CHOOSE j \in 1..Len(marbles_list) :
                        /\ marbles_list[j]["Marble Name"] = marble
                        /\ \A h \in 1..(j - 1) : marbles_list[h]["Marble Name"] # marble
            declared == marbles_list[first]["Final Level"]
        IN  IF level = declared
            THEN pc' = "history" /\ err' = "none" /\ mk' = mk + 1
            ELSE pc' = "raised" /\ err' = "AssertionError"]_vars

(* Born(level 1), Survive(location not BATTLE) ends in "done" with level 1  *)
(* and fails against a declared Final Level of 2 (the first of two        *)
(* marbles).                                                               *)
C3_Witness ==
    /\ pc = "raised" /\ err = "AssertionError" /\ state = "done" /\ level = 1
    /\ event[2] = "Survive" /\ event[4] # "BATTLE"
    /\ mk = 1 /\ Len(marbles) = 2 /\ marbles_list[1]["Final Level"] = 2

(* C4: in "done" every further event of the marble, End Battle included,   *)
(* ends validation, and no step of the marble's replay leaves "done".      *)
C4_DoneAbsorbing ==
    [][(state = "done" /\ pc \in {"events", "match"}) =>
        /\ state' = "done"
        /\ pc = "match" => (err' = "ValueError" /\ pc' = "raised")]_vars

(* An End Battle after Done was rejected. *)
C4_Witness ==
    /\ pc = "raised" /\ err = "ValueError" /\ state = "done"
    /\ event[2] = "End Battle"

(* C5: in "dead" a Revive with the tracked level leads to "alive", an      *)
(* End Battle changes nothing, and every other event, a Revive with        *)
(* another level included, ends validation.                                *)
C5_Dead ==
    [][(pc = "match" /\ state = "dead") =>
        CASE event[2] = "Revive" /\ event[3] = level ->
                err' = "none" /\ pc' = "events" /\ state' = "alive" /\ level' = level
          [] event[2] = "End Battle" ->
                err' = "none" /\ pc' = "events" /\ state' = "dead" /\ level' = level
          [] OTHER -> err' # "none" /\ pc' = "raised"]_vars

(* A Revive with another level than the tracked one was rejected. *)
C5_Witness ==
    /\ pc = "raised" /\ err = "AssertionError" /\ state = "alive"
    /\ event[2] = "Revive" /\ event[3] # level

(* C6: a Death is accepted exactly in "battle" with location "BATTLE", a   *)
(* Survive exactly in "alive" with a location other than "BATTLE".         *)
C6_DeathSurvive ==
    [][pc = "match" =>
        /\ event[2] = "Death" =>
              (err' = "none" <=> (state = "battle" /\ event[4] = "BATTLE"))
        /\ event[2] = "Survive" =>
              (err' = "none" <=> (state = "alive" /\ event[4] # "BATTLE"))
        /\ (event[2] \in {"Death", "Survive"} /\ err' # "none") => pc' = "raised"]_vars

(* A Death in a battle with location "-" was rejected. *)
C6_Witness ==
    /\ pc = "raised" /\ err = "AssertionError" /\ state = "dead"
    /\ event[2] = "Death" /\ event[4] = "-"

----------------------------------------------------------------------------
(* The claims about the battle interval check, checked under SpecOverlap.  *)

(* C7: when the interval check passes, every two distinct battles of the   *)
(* table, adjacent in begin order or not, are apart: the End of one is     *)
(* strictly less than the Begin of the other.  Battles that overlap or     *)
(* touch therefore fail it.                                                *)
C7_NoOverlap ==
    pc = "roster" =>
        \A a, b \in 1..Len(battles_df) :
            a # b => \/ battles_df[a]["End"] < battles_df[b]["Begin"]
                     \/ battles_df[b]["End"] < battles_df[a]["Begin"]

(* Three battles that were not in begin order in the file passed. *)
C7_Witness ==
    /\ pc = "roster"
    /\ Len(battles_df) = 3
    /\ battles_df[1]["Begin"] > battles_df[2]["Begin"]
    /\ battles_df[3]["Begin"] < battles_df[2]["Begin"]

(* C8: in every dataset that passes the interval check each battle's Begin  *)
(* is strictly less than its End.                                          *)
C8_BeginBeforeEnd ==
    pc = "roster" =>
        \A a \in 1..Len(battles_df) : battles_df[a]["Begin"] < battles_df[a]["End"]

----------------------------------------------------------------------------
(* The claim about the roster check, checked under SpecRoster.             *)

(* C9: the roster check of a battle passes exactly when the color of every *)
(* marble that battle-marbles declares for the battle is among the colors  *)
(* battle-colors declares for it, and fails otherwise; a battle without    *)
(* participants passes.                                                    *)
C9_Roster ==
    [][(pc = "roster" /\ bk <= Len(battles)) =>
        LET id == battles[bk]
            declared == { c \in ColorNames :
                            \E j \in 1..Len(battle_colors) :
                               /\ battle_colors[j]["Battle Id"] = id
                               /\ battle_colors[j]["Color"] = c }
            participants == { m \in MarbleNames :
                                \E j \in 1..Len(battle_marbles) :
                                   /\ battle_marbles[j]["Battle Id"] = id
                                   /\ battle_marbles[j]["Marble Name"] = m }
            ok == \A j \in 1..Len(marbles_list) :
                     marbles_list[j]["Marble Name"] \in participants
                        => marbles_list[j]["Color"] \in declared
        IN  IF ok THEN pc' = "roster" /\ err' = "none" /\ bk' = bk + 1
            ELSE pc' = "raised" /\ err' # "none"]_vars

----------------------------------------------------------------------------
(* The claim about the schemas, checked under SpecSchema.                  *)

(* A row of the table being validated holds a reference that does not      *)
(* resolve, or a Location that is neither an allowed sentinel nor a marble. *)
Dangling(r) ==
    CASE pc = "marbles:validate" -> ~Resolves(colors_list, "Color", r["Color"])
      [] pc = "begin:validate" ->
            \/ ~Resolves(marbles_list, "Marble Name", r["Marble Name"])
            \/ ~(r["Location"] = "-"
                 \/ Resolves(marbles_list, "Marble Name", r["Location"]))
      [] pc = "level:validate" ->
            ~Resolves(marbles_list, "Marble Name", r["Marble Name"])
      [] pc = "end:validate" ->
            \/ ~Resolves(marbles_list, "Marble Name", r["Marble Name"])
            \/ ~(r["Location"] \in {"-", "BATTLE"}
                 \/ Resolves(marbles_list, "Marble Name", r["Location"]))
      [] pc = "battle-colors:validate" ->
            \/ ~Resolves(battle_list, "Battle Id", r["Battle Id"])
            \/ ~Resolves(colors_list, "Color", r["Color"])
      [] pc = "battle-marbles:validate" ->
            \/ ~Resolves(battle_list, "Battle Id", r["Battle Id"])
            \/ ~Resolves(marbles_list, "Marble Name", r["Marble Name"])
      [] OTHER -> FALSE

(* C10: a table with a row whose Marble Name, Color or Battle Id does not  *)
(* resolve to a row of the referenced table, or whose Location is neither  *)
(* an allowed sentinel ("-" in begin; "-" or "BATTLE" in end) nor the name *)
(* of a marble, fails schema validation and is not stored.                 *)
C10_References ==
    [][(\E j \in 1..Len(rows) : Dangling(rows[j])) =>
        (pc' = "raised" /\ err' = "SchemaError" /\ tables' = tables)]_vars

(* battle-marbles was rejected for a Battle Id that is no battle, after    *)
(* the seven tables before it passed.                                      *)
C10_Witness ==
    /\ pc = "raised" /\ err = "SchemaError"
    /\ \E j \in 1..Len(rows) :
          /\ DOMAIN rows[j] = {"Battle Id", "Marble Name"}
          /\ ~Resolves(battle_list, "Battle Id", rows[j]["Battle Id"])

----------------------------------------------------------------------------
(* The claims about the whole run, checked under SpecValidate.             *)

(* The stage a position belongs to: the eight tables in the order of their  *)
(* schemas, the interval check, the roster check, the replay, the return.   *)
Stage(p) ==
    CASE p \in {"colors", "colors:validate"} -> 1
      [] p \in {"marbles", "marbles:validate"} -> 2
      [] p \in {"begin", "begin:validate"} -> 3
      [] p \in {"level", "level:validate"} -> 4
      [] p \in {"end", "end:validate"} -> 5
      [] p \in {"battles", "battles:validate"} -> 6
      [] p \in {"battle-colors", "battle-colors:validate"} -> 7
      [] p \in {"battle-marbles", "battle-marbles:validate"} -> 8
      [] p \in {"frames", "sort", "overlap"} -> 9
      [] p = "roster" -> 10
      [] p \in {"history", "events", "match"} -> 11
      [] p = "return" -> 12

(* Replaying a list of events from a state and a level: the state, level    *)
(* and exception at its end or at the first event that is refused.         *)
RECURSIVE ReplayFrom(_, _, _)
ReplayFrom(list, st, lvl) ==
    IF list = <<>> THEN Step(st, lvl, "none")
    ELSE LET r == Transition(st, lvl, Head(list))
         IN  IF r.err # "none" THEN r ELSE ReplayFrom(Tail(list), r.state, r.level)

(* The marble's replay is legal and ends at its declared Final Level. *)
Accepted(name) ==
    LET r == ReplayFrom(EventsOf(name), "unalive", None)
    IN  r.err = "none" /\ r.level = FinalLevel(name)

(* Two rows of battles.csv overlap or touch. *)
SomeOverlap ==
    \E a, b \in 1..Len(battles_df) :
        /\ a # b
        /\ ~(battles_df[a]["End"] < battles_df[b]["Begin"])
        /\ ~(battles_df[b]["End"] < battles_df[a]["Begin"])

(* What the stages before the one of pc have established. *)
EarlierStagesPassed ==
    LET k == Stage(pc)
    IN  /\ k > 1 => colors_list # Unbound
        /\ k > 2 => /\ marbles_list # Unbound
                    /\ \A j \in 1..Len(marbles_list) :
                          Resolves(colors_list, "Color", marbles_list[j]["Color"])
        /\ k > 3 => /\ begins # Unbound
                    /\ \A j \in 1..Len(begins) :
                          Resolves(marbles_list, "Marble Name", begins[j]["Marble Name"])
        /\ k > 4 => /\ levels # Unbound
                    /\ \A j \in 1..Len(levels) :
                          Resolves(marbles_list, "Marble Name", levels[j]["Marble Name"])
        /\ k > 5 => /\ ends # Unbound
                    /\ \A j \in 1..Len(ends) :
                          Resolves(marbles_list, "Marble Name", ends[j]["Marble Name"])
        /\ k > 6 => battle_list # Unbound
        /\ k > 7 => /\ battle_colors # Unbound
                    /\ \A j \in 1..Len(battle_colors) :
                          /\ Resolves(battle_list, "Battle Id", battle_colors[j]["Battle Id"])
                          /\ Resolves(colors_list, "Color", battle_colors[j]["Color"])
        /\ k > 8 => /\ battle_marbles # Unbound
                    /\ \A j \in 1..Len(battle_marbles) :
                          /\ Resolves(battle_list, "Battle Id", battle_marbles[j]["Battle Id"])
                          /\ Resolves(marbles_list, "Marble Name", battle_marbles[j]["Marble Name"])
        /\ k > 9 => ~SomeOverlap
        /\ k > 10 => \A b \in 1..Len(battles_df) : RosterOk(battles_df[b]["Battle Id"])
        /\ k >= 11 => \A j \in 1..(mk - 1) : Accepted(marbles[j])

(* C11: validation is fail-fast with a fixed stage order.  A step stays in  *)
(* its stage, enters the next one, or ends the run with an exception; the   *)
(* exception is set exactly when the run has ended so, and nothing happens  *)
(* after it.  While the run is in a stage every earlier stage has passed:   *)
(* the tables of the earlier schemas are stored with their references      *)
(* resolved, no two battles overlap once the roster check runs, every       *)
(* roster is right once the replay runs, and the marble being replayed      *)
(* comes after marbles that were all accepted.                             *)
C11_FailFast ==
    /\ [](pc # "raised" => EarlierStagesPassed)
    /\ []((pc = "raised") <=> (err # "none"))
    /\ [][/\ pc # "raised"
          /\ pc' # "raised" => Stage(pc') \in {Stage(pc), Stage(pc) + 1}]_vars

(* A dataset whose battles overlap and whose first marble has an illegal    *)
(* lifecycle has failed at the interval check: no roster was checked and    *)
(* no marble was replayed.                                                 *)
C11_Witness ==
    /\ pc = "raised" /\ err = "AssertionError"
    /\ battles_df # Unbound /\ SomeOverlap
    /\ bk = 1 /\ mk = 1 /\ state = Unset
    /\ Len(marbles) > 0 /\ ~Accepted(marbles[1])

----------------------------------------------------------------------------
(* The claim about is_hex_code, checked under SpecSchema, where             *)
(* COLORS_SCHEMA applies it to the Hex Code of every row of colors.csv.    *)

(* "#" followed by exactly six of the digits 0-9 and the letters A-F. *)
ExactHexCode(value) ==
    /\ Len(value) = 7
    /\ value[1] = "#"
    /\ \A k \in 2..7 :
          value[k] \in {"0", "1", "2", "3", "4", "5", "6", "7", "8", "9",
                        "A", "B", "C", "D", "E", "F"}

(* C12: is_hex_code accepts a text exactly if it is "#" followed by exactly *)
(* six hex digits (0-9, uppercase A-F); a text of another length, with a    *)
(* lowercase letter or without the "#" is rejected.  So colors.csv passes   *)
(* its schema exactly if every Hex Code is such a text.                    *)
C12_HexCode ==
    [][pc = "colors:validate" =>
        ((pc' = "marbles" /\ colors_list' = rows)
            <=> \A j \in 1..Len(rows) : ExactHexCode(rows[j]["Hex Code"]))]_vars

----------------------------------------------------------------------------
(* The claim about the time codec, checked under SpecTime.                 *)

(* C13: the text "01:02:03.5" parses to 3723.5 seconds and 3723.5 seconds   *)
(* display as "01:02:03.5"; parsing the display of a time gives the time    *)
(* back, for every non-negative whole number of tenths of a second, with    *)
(* or without a fraction of a second and with 24 hours or more; parsing     *)
(* fails on every text that ":" does not split into exactly three parts.   *)
C13_TimeRoundTrip ==
    [][LET example == <<"0", "1", ":", "0", "2", ":", "0", "3", ".", "5">>
           colons == Cardinality({ k \in 1..Len(time_text) : time_text[k] = ":" })
       IN  /\ (pc = "time" /\ time = 37235) => time_text' = example
           /\ (pc = "displayed" /\ time_text = example) => time' = 37235
           /\ pc = "displayed" => (pc' = "parsed" /\ err' = "none" /\ time' = time)
           /\ (pc \in {"displayed", "text"} /\ colons # 2) =>
                 (pc' = "raised" /\ err' = "AssertionError")]_vars

(* A time of 24 hours or more without a fraction of a second came back. *)
C13_Witness ==
    /\ pc = "parsed" /\ time >= 24 * 36000 /\ time % 10 = 0
    /\ time_text[1] = "2" /\ time_text[2] = "4"

----------------------------------------------------------------------------
(* The claims about the replay of a marble over its tables, checked under   *)
(* SpecStream and SpecRevive.  The marble replayed is the first one.       *)

StreamAccepted == pc = "history" /\ mk = 2

Own(df) == SelectSeq(df, LAMBDA r : r["Marble Name"] = marbles_list[1]["Marble Name"])

(* The battles the marble is listed in. *)
OwnBattles ==
    { b \in 1..Len(battles_df) :
        \E j \in 1..Len(Own(battle_marbles)) :
            Own(battle_marbles)[j]["Battle Id"] = battles_df[b]["Battle Id"] }

Births == SelectSeq(Own(begins), LAMBDA r : r["Type"] \in {"Born", "Summon"})

(* The groups in the order in which lines 179-207 append them. *)
Group(ev) ==
    CASE ev[2] \in {"Born", "Summon", "Revive"} -> 1
      [] ev[2] = "Level" -> 2
      [] ev[2] \in {"Death", "Survive"} -> 3
      [] ev[2] = "Begin Battle" -> 4
      [] ev[2] = "End Battle" -> 5

(* The events of a group at a time are the rows of the table at that time,  *)
(* in the order of the table.                                              *)
InTableOrder(df, g) ==
    \A t \in BattleTimes :
        LET at == SelectSeq(Own(df), LAMBDA r : r["Time"] = t)
            got == SelectSeq(events, LAMBDA ev : ev[1] = t /\ Group(ev) = g)
        IN  /\ Len(got) = Len(at)
            /\ \A k \in 1..Len(at) :
                  /\ got[k][3] = at[k]["Level"]
                  /\ g # 2 => got[k][2] = at[k]["Type"] /\ got[k][4] = at[k]["Location"]

(* C14: the events of a marble are replayed in ascending order of time,     *)
(* and events of one time in the order Begin rows, Level rows, End rows,    *)
(* Begin Battle, End Battle, the rows of a table in the order of the table; *)
(* no dataset is accepted in which a participant of a battle has a Level    *)
(* row at the Begin of that battle.                                        *)
C14_ReplayOrder ==
    /\ [](/\ \A a, b \in 1..Len(events) :
                a < b => \/ events[a][1] < events[b][1]
                         \/ /\ events[a][1] = events[b][1]
                            /\ Group(events[a]) <= Group(events[b])
          /\ InTableOrder(begins, 1) /\ InTableOrder(levels, 2) /\ InTableOrder(ends, 3)
          /\ pc = "match" => (ek >= 1 /\ event = events[ek])
          /\ StreamAccepted =>
                ~\E b \in OwnBattles : \E j \in 1..Len(Own(levels)) :
                    Own(levels)[j]["Time"] = battles_df[b]["Begin"])
    /\ [][(pc \in {"events", "match"}) => (ek' = ek \/ ek' = ek + 1)]_vars

(* Accepted: a participant born at the Begin of its battle that dies at     *)
(* the End of it.                                                          *)
C14_Witness ==
    /\ StreamAccepted
    /\ \E b \in OwnBattles : \E j \in 1..Len(Births) : \E h \in 1..Len(Own(ends)) :
          /\ Births[j]["Time"] = battles_df[b]["Begin"]
          /\ Own(ends)[h]["Type"] = "Death"
          /\ Own(ends)[h]["Time"] = battles_df[b]["End"]

(* A birth of the marble strictly inside a battle and a Level row of the    *)
(* marble not later than the End of that battle.                           *)
BornInBattleAndLevels ==
    \E b \in 1..Len(battles_df) : \E j \in 1..Len(Births) : \E h \in 1..Len(Own(levels)) :
        /\ battles_df[b]["Begin"] < Births[j]["Time"]
        /\ Births[j]["Time"] < battles_df[b]["End"]
        /\ Own(levels)[h]["Time"] <= battles_df[b]["End"]

(* C15: no dataset is accepted in which a marble is born (Born or Summon)   *)
(* strictly between the Begin and the End of a battle and has a Level row   *)
(* at a time not later than that End, whether the marble is listed for the  *)
(* battle or not.                                                          *)
C15_BornInBattle == StreamAccepted => ~BornInBattleAndLevels

(* Rejected: a marble that is in no battle, born inside the battle, with a  *)
(* Level row before the End of the battle.                                 *)
C15_Witness ==
    /\ pc = "raised" /\ BornInBattleAndLevels /\ OwnBattles = {}
    /\ event[2] = "Level"

(* C16: in an accepted dataset the marble has exactly one Born or Summon    *)
(* row, the event of that row is the first one replayed, the level never    *)
(* decreases during the replay, and the Final Level of the marble is the    *)
(* Level of that row plus the number of Level rows of the marble.          *)
C16_OneBirth ==
    /\ [](StreamAccepted =>
            /\ Len(Births) = 1
            /\ events[1][1] = Births[1]["Time"]
            /\ events[1][2] = Births[1]["Type"]
            /\ events[1][3] = Births[1]["Level"]
            /\ marbles_list[1]["Final Level"] = Births[1]["Level"] + Len(Own(levels)))
    /\ [][(pc \in {"events", "match"}) => level' >= level]_vars

(* Accepted: a marble born at level 0 with two Level rows. *)
C16_Witness ==
    /\ StreamAccepted /\ Len(Births) = 1 /\ Births[1]["Level"] = 0
    /\ Len(Own(levels)) = 2 /\ level = 2

(* C18: no dataset is accepted in which battle-marbles.csv lists the marble *)
(* twice for one battle.                                                   *)
C18_ListedOnce ==
    StreamAccepted =>
        \A j, h \in 1..Len(Own(battle_marbles)) :
            Own(battle_marbles)[j]["Battle Id"] = Own(battle_marbles)[h]["Battle Id"] => j = h

(* Rejected: the second Begin Battle of one battle arrives in "battle". *)
C18_Witness ==
    /\ pc = "raised" /\ err = "ValueError" /\ state = "battle"
    /\ event[2] = "Begin Battle" /\ ek = 3
    /\ Len(Own(battle_marbles)) = 2

(* C19: a marble without any event is rejected by the assert on its Final   *)
(* Level, and in an accepted dataset the marble has a Born or Summon row.   *)
C19_NoEvents ==
    /\ [](StreamAccepted => Len(Births) >= 1)
    /\ [][(pc = "events" /\ events = <<>> /\ pc' # "match") =>
            (pc' = "raised" /\ err' = "AssertionError")]_vars

(* Rejected: the marble has no row in any table. *)
C19_Witness ==
    /\ pc = "raised" /\ err = "AssertionError" /\ events = <<>> /\ level = None
    /\ Own(begins) = <<>> /\ Own(levels) = <<>> /\ Own(ends) = <<>>
    /\ Own(battle_marbles) = <<>>

----------------------------------------------------------------------------
(* The claim about reviving, checked under SpecRevive.                     *)

(* A Death of the marble during a battle it is listed in and a Revive of    *)
(* the marble from the given time on and not later than the End of that     *)
(* battle.                                                                 *)
ReviveInBattle(from_death) ==
    \E b \in OwnBattles : \E j \in 1..Len(Own(ends)) : \E h \in 1..Len(Own(begins)) :
        /\ Own(ends)[j]["Type"] = "Death"
        /\ battles_df[b]["Begin"] <= Own(ends)[j]["Time"]
        /\ Own(ends)[j]["Time"] <= battles_df[b]["End"]
        /\ Own(begins)[h]["Type"] = "Revive"
        /\ Own(begins)[h]["Time"] <= battles_df[b]["End"]
        /\ from_death => Own(ends)[j]["Time"] <= Own(begins)[h]["Time"]

(* C17 as stated: no dataset is accepted in which the marble has a Death    *)
(* during a battle it is listed in and a Revive at a time not later than    *)
(* the End of that battle.                                                 *)
C17_ReviveAnyTime == pc = "return" => ~ReviveInBattle(FALSE)

(* C17: no dataset is accepted in which the marble has a Death during a     *)
(* battle it is listed in and a Revive at a time not earlier than that      *)
(* Death and not later than the End of that battle.                        *)
C17_ReviveAfterEnd == (StreamAccepted \/ pc = "return") => ~ReviveInBattle(TRUE)

(* Rejected: after the Death and the Revive, End Battle arrives in "alive". *)
C17_Witness ==
    /\ pc = "raised" /\ err = "ValueError" /\ ReviveInBattle(TRUE)
    /\ state = "alive" /\ event[2] = "End Battle"

----------------------------------------------------------------------------
(* The claim about the end of the stream, checked under Spec.              *)

(* C20: at the end of a marble's events nothing is asked of the state: in   *)
(* "alive", "battle" and "dead" the marble is accepted whenever the level   *)
(* is its Final Level.                                                     *)
C20_AnyFinalState ==
    [][(/\ pc = "events" /\ pc' # "match" /\ pc' # pc
        /\ state \in {"alive", "battle", "dead"}
        /\ level = FinalLevel(marble)) =>
            (pc' = "history" /\ err' = "none" /\ mk' = mk + 1)]_vars

(* validate() returned and the last marble ended in a battle. *)
C20_Witness == pc = "return" /\ state = "battle" /\ err = "none"

====
